---------------------------- MODULE Spec2Model ----------------------------
(***************************************************************************)
(* A model of typing_inspection.introspection: inspect_annotation (the     *)
(* qualifier and metadata unwrapper), get_literal_values (the literal      *)
(* value extractor), the visitor and transformers of _parsing and          *)
(* alias_substitutions of _utils, over a small universe of type            *)
(* expressions.                                                            *)
(***************************************************************************)
EXTENDS Integers, Sequences, FiniteSets, TLC

(***************************************************************************)
(* Bounds of the model.                                                    *)
(***************************************************************************)
\* Wrapper layers (qualifier or Annotated) put around a leaf expression.
MaxDepth == 2
\* Passes of the unwrapping loop that are followed in one call.
MaxIterations == 6
\* Members of a Literal form given to get_literal_values.
MaxLen == 3

(***************************************************************************)
(* Type expressions.  Every expression is a record of one shape:           *)
(*   k    : the variant                                                    *)
(*   tag  : the type's name, the qualifier form, the alias or origin name  *)
(*   meta : __metadata__ of an Annotated form                              *)
(*   args : __args__ (for Annotated, the one annotated type __origin__)    *)
(***************************************************************************)
Node(k, tag, meta, args) == [k |-> k, tag |-> tag, meta |-> meta, args |-> args]

\* A plain type such as int, or typing.Any.
Bare(name) == Node("type", name, <<>>, <<>>)
\* An unsubscripted special form, such as typing.Final on its own.
SpecialForm(name) == Node("special", name, <<>>, <<>>)
\* Final[e], ClassVar[e], Required[e], NotRequired[e], ReadOnly[e].
Qualified(form, e) == Node("qualified", form, <<>>, <<e>>)
\* Annotated[e, *m]; Python flattens Annotated[Annotated[t, a], b] into
\* Annotated[t, a, b].
Annotated(e, m) ==
    IF e.k = "annotated"
    THEN Node("annotated", "Annotated", e.meta \o m, e.args)
    ELSE Node("annotated", "Annotated", m, <<e>>)
\* A PEP 695 type alias (a TypeAliasType instance).
AliasRef(name) == Node("alias", name, <<>>, <<>>)
\* origin[args]: list[int], or a parameterized type alias MyList[int].
Generic(origin, args) == Node("generic", origin, <<>>, args)
\* The type variable of a generic type alias.
TypeVarT == Node("typevar", "T", <<>>, <<>>)
\* A name that is not bound in the namespace an alias value is evaluated in.
Unbound == Node("unbound", "", <<>>, <<>>)

int == Bare("int")
AnyType == Bare("Any")
Final == SpecialForm("Final")

QualifierForms == {"ClassVar", "Final", "Required", "NotRequired", "ReadOnly"}

(***************************************************************************)
(* The type aliases of the universe, and the names their values use.       *)
(*   type Alias = Annotated[int, 1]                                        *)
(*   type MyInt = Annotated[Undefined, 4]      (Undefined is bound late)   *)
(*   type Plain = int                                                      *)
(*   type Outer = Alias                                                    *)
(*   type MyList[T] = Annotated[list[T], 2]                                *)
(*   type MyIntT[T] = int                                                  *)
(*   type MyDict[T] = dict[Undefined, T]       (Undefined is bound late)   *)
(***************************************************************************)
Symbols == {"Undefined"}
AliasNames == {"Alias", "MyInt", "Plain", "Outer", "MyList", "MyIntT", "MyDict"}

AliasSymbols(name) == IF name \in {"MyInt", "MyDict"} THEN {"Undefined"} ELSE {}

AliasBody(name, ns) ==
    CASE name = "Alias"  -> Annotated(int, <<1>>)
      [] name = "MyInt"  -> Annotated(ns["Undefined"], <<4>>)
      [] name = "Plain"  -> int
      [] name = "Outer"  -> AliasRef("Alias")
      [] name = "MyList" -> Annotated(Generic("list", <<TypeVarT>>), <<2>>)
      [] name = "MyIntT" -> int
      [] name = "MyDict" -> Generic("dict", <<ns["Undefined"], TypeVarT>>)

\* alias.__value__ : the value, or NameError when a name it uses is unbound.
AliasValue(name, ns) ==
    IF \E s \in AliasSymbols(name) : ns[s] = Unbound
    THEN [err |-> TRUE, value |-> Unbound]
    ELSE [err |-> FALSE, value |-> AliasBody(name, ns)]

RECURSIVE HasTypeVar(_)
HasTypeVar(e) ==
    \/ e.k = "typevar"
    \/ \E i \in DOMAIN e.args : HasTypeVar(e.args[i])

RECURSIVE Substitute(_, _)
Substitute(e, arg) ==
    IF e.k = "typevar" THEN arg
    ELSE [e EXCEPT !.args = [i \in DOMAIN e.args |-> Substitute(e.args[i], arg)]]

\* value[args] : the value's type variable replaced; TypeError (ok = FALSE)
\* when the value has no type variable to replace.
Subscript(value, args) ==
    IF HasTypeVar(value)
    THEN [ok |-> TRUE, value |-> Substitute(value, args[1])]
    ELSE [ok |-> FALSE, value |-> value]

(***************************************************************************)
(* typing_extensions.get_origin and the typing_objects predicates.         *)
(***************************************************************************)
NoOrigin == "None"

get_origin(e) ==
    CASE e.k = "qualified"  -> e.tag
      [] e.k = "annotated"  -> "Annotated"
      [] e.k = "generic"    -> e.tag
      [] e.k = "union"      -> "UnionType"
      [] e.k = "marker"     -> "Generic"
      [] e.k = "deprecated" -> e.tag
      [] OTHER              -> NoOrigin

is_annotated(origin) == origin = "Annotated"
is_classvar(origin) == origin = "ClassVar"
is_final_origin(origin) == origin = "Final"
is_required(origin) == origin = "Required"
is_notrequired(origin) == origin = "NotRequired"
is_readonly(origin) == origin = "ReadOnly"
\* is_final applied to the annotation itself: the bare typing.Final form.
is_final(e) == e.k = "special" /\ e.tag = "Final"
\* is_typealiastype applied to an expression, and to an origin.
is_typealiastype(e) == e.k = "alias"
is_typealiastype_origin(origin) == origin \in AliasNames

(***************************************************************************)
(* AnnotationSource and its allowed qualifiers.                            *)
(***************************************************************************)
AnnotationSource ==
    {"ASSIGNMENT_OR_VARIABLE", "CLASS", "TYPED_DICT", "NAMED_TUPLE",
     "FUNCTION", "ANY", "BARE"}

Qualifier == {"required", "not_required", "read_only", "class_var", "final"}

Policies == {"keep", "lenient", "eager"}

\* allowed_qualifiers with NAMED_TUPLE answered as CLASS is.
allowed_qualifiers_named_tuple_as_class(self) ==
    CASE self = "ASSIGNMENT_OR_VARIABLE" -> {"final"}
      [] self \in {"CLASS", "NAMED_TUPLE"} -> {"final", "class_var"}
      [] self = "TYPED_DICT" -> {"required", "not_required", "read_only"}
      [] self \in {"FUNCTION", "BARE"} -> {}
      [] self = "ANY" ->
            {"required", "not_required", "read_only", "class_var", "final"}

allowed_qualifiers(self) ==
    CASE self = "ASSIGNMENT_OR_VARIABLE" -> {"final"}
      [] self = "CLASS" -> {"final", "class_var"}
      [] self = "TYPED_DICT" -> {"required", "not_required", "read_only"}
      [] self \in {"NAMED_TUPLE", "FUNCTION", "BARE"} -> {}
      [] self = "ANY" ->
            {"required", "not_required", "read_only", "class_var", "final"}

(***************************************************************************)
(* _unpack_annotated_inner and _unpack_annotated.  The result is           *)
(* [err, typ, meta]: err is TRUE when NameError leaves the function.       *)
(***************************************************************************)
Unpacked(typ, meta) == [err |-> FALSE, typ |-> typ, meta |-> meta]
NameErrorRaised(annotation) == [err |-> TRUE, typ |-> annotation, meta |-> <<>>]

RECURSIVE unpack_annotated_inner(_, _, _, _)
unpack_annotated_inner(annotation, policy, check_annotated, ns) ==
    LET origin == get_origin(annotation) IN
    IF check_annotated /\ is_annotated(origin)
    THEN LET sub == unpack_annotated_inner(annotation.args[1], policy, FALSE, ns) IN
         IF sub.err THEN sub
         ELSE Unpacked(sub.typ, sub.meta \o annotation.meta)
    ELSE IF is_typealiastype(annotation)
    THEN LET v == AliasValue(annotation.tag, ns) IN
         IF v.err
         THEN IF policy = "eager" THEN NameErrorRaised(annotation)
              ELSE Unpacked(annotation, <<>>)
         ELSE LET sub == unpack_annotated_inner(v.value, policy, TRUE, ns) IN
              IF sub.err THEN sub
              ELSE IF sub.meta # <<>> THEN Unpacked(sub.typ, sub.meta)
              ELSE Unpacked(annotation, <<>>)
    ELSE IF is_typealiastype_origin(origin)
    THEN LET v == AliasValue(origin, ns) IN
         IF v.err
         THEN IF policy = "eager" THEN NameErrorRaised(annotation)
              ELSE Unpacked(annotation, <<>>)
         ELSE LET value == Subscript(v.value, annotation.args).value
                  sub == unpack_annotated_inner(value, policy, TRUE, ns) IN
              IF sub.err THEN sub
              ELSE IF sub.meta # <<>> THEN Unpacked(sub.typ, sub.meta)
              ELSE Unpacked(annotation, <<>>)
    ELSE Unpacked(annotation, <<>>)

unpack_annotated(annotation, policy, ns) ==
    IF policy = "keep"
    THEN IF is_annotated(get_origin(annotation))
         THEN Unpacked(annotation.args[1], annotation.meta)
         ELSE Unpacked(annotation, <<>>)
    ELSE unpack_annotated_inner(annotation, policy, TRUE, ns)

(***************************************************************************)
(* deque.extendleft(reversed(_meta)): the items of the reversed list are   *)
(* put at the left end one by one.                                         *)
(***************************************************************************)
RECURSIVE Reversed(_)
Reversed(s) == IF s = <<>> THEN <<>> ELSE Append(Reversed(Tail(s)), Head(s))

\* deque.extend in place of deque.extendleft.
Extend(deque, items) == deque \o items

RECURSIVE ExtendLeft(_, _)
ExtendLeft(deque, items) ==
    IF items = <<>> THEN deque
    ELSE ExtendLeft(<<Head(items)>> \o deque, Tail(items))

(***************************************************************************)
(* The qualifier branches of the loop of inspect_annotation.               *)
(***************************************************************************)
\* The qualifier a branch adds to the set.
QualifierAdded(origin) ==
    CASE is_classvar(origin)     -> "class_var"
      [] is_final_origin(origin) -> "final"
      [] is_required(origin)     -> "required"
      [] is_notrequired(origin)  -> "not_required"
      [] is_readonly(origin)     -> "read_only"

\* The qualifier a branch puts in ForbiddenQualifier.
QualifierRaised(origin) ==
    CASE is_classvar(origin)     -> "class_var"
      [] is_final_origin(origin) -> "final"
      [] is_required(origin)     -> "required"
      [] is_notrequired(origin)  -> "not_required"
      [] is_readonly(origin)     -> "not_required"

NoException == [exc |-> "none", qualifier |-> "none"]
ForbiddenQualifier(q) == [exc |-> "ForbiddenQualifier", qualifier |-> q]
NameError == [exc |-> "NameError", qualifier |-> "none"]

InspectedAnnotation(type, quals, meta) ==
    [type |-> type, qualifiers |-> quals, metadata |-> meta]
NoResult == InspectedAnnotation(Unbound, {}, <<>>)

\* The code after the loop: the bare Final form, then the return.
AfterLoop(annotation, allowed, quals, meta) ==
    IF is_final(annotation)
    THEN IF "final" \notin allowed
         THEN [raised |-> ForbiddenQualifier("final"), result |-> NoResult]
         ELSE [raised |-> NoException,
               result |-> InspectedAnnotation(AnyType, quals \cup {"final"}, meta)]
    ELSE [raised |-> NoException,
          result |-> InspectedAnnotation(annotation, quals, meta)]

(***************************************************************************)
(* The annotations handed to inspect_annotation.                           *)
(***************************************************************************)
Leaves ==
    {int, Final, Generic("list", <<int>>),
     AliasRef("Alias"), AliasRef("MyInt"), AliasRef("Plain"), AliasRef("Outer"),
     Generic("MyList", <<int>>), Generic("MyIntT", <<int>>)}

MetaChoices == {<<2>>, <<3>>}

RECURSIVE Wrapped(_)
Wrapped(n) ==
    IF n = 0 THEN Leaves
    ELSE LET inner == Wrapped(n - 1) IN
         inner \cup {Qualified(q, e) : q \in QualifierForms, e \in inner}
               \cup {Annotated(e, m) : e \in inner, m \in MetaChoices}

\* Final[Annotated[ClassVar[Annotated[Alias, 2]], 3]]
TestAnnotation ==
    Qualified("Final",
        Annotated(Qualified("ClassVar", Annotated(AliasRef("Alias"), <<2>>)), <<3>>))

\* Annotated[Final[Annotated[Annotated[t, 3], 2]], 1]
NestedMetadata(t) ==
    Annotated(Qualified("Final", Annotated(Annotated(t, <<3>>), <<2>>)), <<1>>)

Annotations ==
    Wrapped(MaxDepth)
        \cup {TestAnnotation, NestedMetadata(int), NestedMetadata(Generic("list", <<int>>))}

(***************************************************************************)
(* Literal members.  A member is [kind, val, name]: kind is the runtime    *)
(* type of the object, val stands for its value (two objects compare equal *)
(* in Python exactly when their val is the same: 1 == True == Color.ONE    *)
(* == 1.0), and name is the alias name of a type alias member.             *)
(***************************************************************************)
Member(kind, val, name) == [kind |-> kind, val |-> val, name |-> name]

IntOne == Member("int", 1, "")
IntTwo == Member("int", 2, "")
BoolTrue == Member("bool", 1, "")
\* class Color(IntEnum): ONE = 1
EnumOne == Member("Enum", 1, "")
FloatOne == Member("float", 1, "")
StrA == Member("str", 10, "")
\* None, and the class NoneType (whose type is type).
NoneValue == Member("NoneType", 20, "")
NoneTypeClass == Member("type", 21, "")
\* The class int, once a literal alias value names it.
IntClass == Member("type", 22, "")
\* A type alias member; two aliases are equal only when they are the same one.
AliasId(name) ==
    CASE name = "Ints" -> 31 [] name = "Nones" -> 32 [] name = "Deep" -> 33
      [] name = "Lazy" -> 34 [] name = "Wrap" -> 35
LiteralAlias(name) == Member("TypeAliasType", AliasId(name), name)

(***************************************************************************)
(* The literal type aliases, and the names their values use.               *)
(*   type Ints = Literal[1, 2]                                             *)
(*   type Nones = Literal[NoneType, None]                                  *)
(*   type Deep = Literal[Ints, True]                                       *)
(*   type Lazy = Literal[Undefined, 2]      (Undefined is bound late)      *)
(*   type Wrap = Literal[Lazy, "a"]                                        *)
(***************************************************************************)
LiteralAliasNames == {"Ints", "Nones", "Deep", "Lazy", "Wrap"}

LiteralAliasSymbols(name) == IF name = "Lazy" THEN {"Undefined"} ELSE {}

LiteralAliasArgs(name) ==
    CASE name = "Ints"  -> <<IntOne, IntTwo>>
      [] name = "Nones" -> <<NoneTypeClass, NoneValue>>
      [] name = "Deep"  -> <<LiteralAlias("Ints"), BoolTrue>>
      [] name = "Lazy"  -> <<IntClass, IntTwo>>
      [] name = "Wrap"  -> <<LiteralAlias("Lazy"), StrA>>

\* arg.__value__ of a literal alias: the __args__ of the Literal form it
\* evaluates to, or NameError when a name it uses is unbound.
LiteralAliasValue(name, ns) ==
    IF \E s \in LiteralAliasSymbols(name) : ns[s] = Unbound
    THEN [err |-> TRUE, args |-> <<>>]
    ELSE [err |-> FALSE, args |-> LiteralAliasArgs(name)]

is_typealiastype_member(arg) == arg.kind = "TypeAliasType"

(***************************************************************************)
(* _literal_type_check: TRUE when the value passes, FALSE when TypeError   *)
(* is raised.                                                              *)
(***************************************************************************)
literal_type_check(value) ==
    \/ value.kind \in {"int", "bytes", "str", "bool", "Enum", "NoneType"}
    \/ value = NoneTypeClass

(***************************************************************************)
(* get_literal_values.  The result is [exc, out]: the values yielded, and  *)
(* the exception that ended the generator ("none" when it was exhausted).  *)
(***************************************************************************)
Yielded(out) == [exc |-> "none", out |-> out]
Failed(exc, out) == [exc |-> exc, out |-> out]

\* One (value, type) pair of values_and_type.
ValueAndType(value, type) == [value |-> value, type |-> type]

\* Equality of two (value, type) tuples used as dict keys.
SameKey(a, b) == a.value.val = b.value.val /\ a.type = b.type

\* p for p, _ in dict.fromkeys(values_and_type)
RECURSIVE FromKeys(_, _)
FromKeys(pairs, kept) ==
    IF pairs = <<>> THEN [i \in DOMAIN kept |-> kept[i].value]
    ELSE IF \E i \in DOMAIN kept : SameKey(kept[i], Head(pairs))
         THEN FromKeys(Tail(pairs), kept)
         ELSE FromKeys(Tail(pairs), Append(kept, Head(pairs)))

\* The values_and_type entry of a member that is no type alias.
PlainEntry(arg) ==
    ValueAndType(IF arg = NoneTypeClass THEN NoneValue ELSE arg, arg.kind)

\* The loop of the 'keep' branch with _has_none never set.
RECURSIVE KeepLoopFlagNeverSet(_, _, _, _)
KeepLoopFlagNeverSet(args, type_check, has_none, out) ==
    IF args = <<>> THEN Yielded(out)
    ELSE LET arg == Head(args) IN
         IF type_check /\ ~literal_type_check(arg) THEN Failed("TypeError", out)
         ELSE IF arg = NoneValue \/ arg = NoneTypeClass
         THEN KeepLoopFlagNeverSet(Tail(args), type_check, has_none,
                       IF has_none THEN out ELSE Append(out, NoneValue))
         ELSE KeepLoopFlagNeverSet(Tail(args), type_check, has_none, Append(out, arg))

\* The loop of the 'keep' branch.
RECURSIVE KeepLoop(_, _, _, _)
KeepLoop(args, type_check, has_none, out) ==
    IF args = <<>> THEN Yielded(out)
    ELSE LET arg == Head(args) IN
         IF type_check /\ ~literal_type_check(arg) THEN Failed("TypeError", out)
         ELSE IF arg = NoneValue \/ arg = NoneTypeClass
         THEN KeepLoop(Tail(args), type_check, TRUE,
                       IF has_none THEN out ELSE Append(out, NoneValue))
         ELSE KeepLoop(Tail(args), type_check, has_none, Append(out, arg))

RECURSIVE get_literal_values(_, _, _, _)
RECURSIVE ExpandLoop(_, _, _, _, _)

\* The loop of the 'lenient' / 'eager' branch, building values_and_type.
ExpandLoop(args, type_check, policy, ns, values_and_type) ==
    IF args = <<>> THEN Yielded(values_and_type)
    ELSE LET arg == Head(args) IN
         IF is_typealiastype_member(arg)
         THEN LET v == LiteralAliasValue(arg.name, ns) IN
              IF v.err
              THEN IF policy = "eager" THEN Failed("NameError", <<>>)
                   ELSE IF type_check /\ ~literal_type_check(arg)
                   THEN Failed("TypeError", <<>>)
                   ELSE ExpandLoop(Tail(args), type_check, policy, ns,
                            Append(values_and_type, ValueAndType(arg, arg.kind)))
              ELSE LET sub == get_literal_values(v.args, type_check, policy, ns) IN
                   IF sub.exc # "none" THEN Failed(sub.exc, <<>>)
                   ELSE ExpandLoop(Tail(args), type_check, policy, ns,
                            values_and_type \o
                                [i \in DOMAIN sub.out |->
                                    ValueAndType(sub.out[i], sub.out[i].kind)])
         ELSE IF type_check /\ ~literal_type_check(arg)
         THEN Failed("TypeError", <<>>)
         ELSE ExpandLoop(Tail(args), type_check, policy, ns,
                  Append(values_and_type, PlainEntry(arg)))

get_literal_values(args, type_check, policy, ns) ==
    IF policy = "keep"
    THEN KeepLoop(args, type_check, FALSE, <<>>)
    ELSE LET built == ExpandLoop(args, type_check, policy, ns, <<>>) IN
         IF built.exc # "none" THEN built
         ELSE Yielded(FromKeys(built.out, <<>>))

(***************************************************************************)
(* The Literal forms handed to get_literal_values: typing.Literal has      *)
(* already removed duplicate (value, type) parameters.                     *)
(***************************************************************************)
Members ==
    {IntOne, BoolTrue, EnumOne, FloatOne, StrA, NoneValue, NoneTypeClass,
     LiteralAlias("Ints"), LiteralAlias("Nones"), LiteralAlias("Deep"),
     LiteralAlias("Lazy"), LiteralAlias("Wrap")}

RECURSIVE LiteralArgs(_)
LiteralArgs(n) ==
    IF n = 0 THEN {<<>>}
    ELSE LET shorter == LiteralArgs(n - 1) IN
         shorter \cup
            {Append(a, m) : a \in {x \in shorter : Len(x) = n - 1},
                            m \in Members}

NoDuplicates(a) == \A i, j \in DOMAIN a : a[i] = a[j] => i = j

Literals == {a \in LiteralArgs(MaxLen) : a # <<>> /\ NoDuplicates(a)}

(***************************************************************************)
(* The type hints walked by introspection._parsing, besides the            *)
(* expressions above.  Unions follow Python 3.12: X | Y is a               *)
(* types.UnionType when every member is a class, a types.GenericAlias or   *)
(* a type alias, and a typing.Union otherwise.                             *)
(***************************************************************************)
\* typing.ForwardRef('A').
ForwardRef(name) == Node("forwardref", name, <<>>, <<>>)
\* A string used as a hint, such as 'B'.
Str(name) == Node("str", name, <<>>, <<>>)
\* typing.Generic (no args) or Generic[...].
GenericMarker(args) == Node("marker", "Generic", <<>>, args)
\* A bare deprecated alias such as typing.List, whose get_origin is list.
DeprecatedAlias(origin) == Node("deprecated", origin, <<>>, <<>>)
\* P.args of a parameter specification.
ParamSpecArgs == Node("paramspecargs", "P", <<>>, <<>>)
\* Literal[...]; its members are values, and a string member is no hint.
LiteralForm(args) == Generic("Literal", args)
\* What a visit() that returns nothing returns.
None == Node("none", "None", <<>>, <<>>)

is_paramspecargs(hint) == hint.k = "paramspecargs"
is_generic(origin) == origin = "Generic"
is_literal(origin) == origin = "Literal"
is_forwardref(hint) == hint.k = "forwardref"
isinstance_str(hint) == hint.k = "str"
is_UnionType(origin) == origin = "UnionType"
InDeprecatedAliases(hint) == hint.k = "deprecated"

\* The members X | Y puts in its result: unions are flattened.
UnionMembers(x) ==
    IF x.k = "union" \/ (x.k = "generic" /\ x.tag = "Union") THEN x.args ELSE <<x>>

RECURSIVE Deduplicated(_, _)
Deduplicated(members, kept) ==
    IF members = <<>> THEN kept
    ELSE IF \E i \in DOMAIN kept : kept[i] = Head(members)
         THEN Deduplicated(Tail(members), kept)
         ELSE Deduplicated(Tail(members), Append(kept, Head(members)))

\* The operands type.__or__ accepts.
is_unionable(x) ==
    \/ x.k \in {"type", "alias"}
    \/ x.k = "marker" /\ x.args = <<>>
    \/ x.k = "generic" /\ x.tag \in {"list", "dict"} \cup AliasNames

\* operator.or_(x, y).
Or(x, y) ==
    LET members == Deduplicated(UnionMembers(x) \o UnionMembers(y), <<>>) IN
    IF Len(members) = 1 THEN members[1]
    ELSE IF \A i \in DOMAIN members : is_unionable(members[i])
         THEN Node("union", "UnionType", <<>>, members)
         ELSE Generic("Union", members)

(***************************************************************************)
(* The outcome of a visit: the value returned (same is TRUE when it is the *)
(* very object the visit was given), or the exception raised, with the     *)
(* forward_arg of an UnevaluatedTypeHint as its value.                     *)
(***************************************************************************)
Returned(value, same) == [exc |-> "none", value |-> value, same |-> same]
Raise(exc, value) == [exc |-> exc, value |-> value, same |-> FALSE]
UnevaluatedTypeHint(forward_arg) == Raise("UnevaluatedTypeHint", forward_arg)

(***************************************************************************)
(* TypeHintVisitor.                                                        *)
(***************************************************************************)
TypeHintVisitor_visit_forward_hint(hint) == UnevaluatedTypeHint(hint)

TypeHintVisitor_visit_bare_hint(hint) ==
    IF is_forwardref(hint) \/ isinstance_str(hint)
    THEN TypeHintVisitor_visit_forward_hint(hint)
    ELSE Returned(None, FALSE)

RECURSIVE TypeHintVisitor_visit(_)
\* for arg in hint.__args__: self.visit(arg) -- the first exception ends it.
RECURSIVE TypeHintVisitor_visit_args(_)
TypeHintVisitor_visit_args(args) ==
    IF args = <<>> THEN Returned(None, FALSE)
    ELSE LET first == TypeHintVisitor_visit(Head(args)) IN
         IF first.exc # "none" THEN first
         ELSE TypeHintVisitor_visit_args(Tail(args))

\* visit_generic_alias that walks the members of a Literal form too.
TypeHintVisitor_visit_generic_alias_literal_too(hint, origin) ==
    TypeHintVisitor_visit_args(hint.args)

TypeHintVisitor_visit_generic_alias(hint, origin) ==
    IF ~is_literal(origin)
    THEN TypeHintVisitor_visit_args(hint.args)
    ELSE Returned(None, FALSE)

TypeHintVisitor_visit_union(hint) == TypeHintVisitor_visit_args(hint.args)

\* visit without the test for the Generic marker.
TypeHintVisitor_visit_marker_unchecked(hint) ==
    IF is_paramspecargs(hint) THEN TypeHintVisitor_visit_bare_hint(hint)
    ELSE LET origin == get_origin(hint) IN
         IF origin # NoOrigin
         THEN IF InDeprecatedAliases(hint) THEN TypeHintVisitor_visit_bare_hint(hint)
              ELSE IF is_UnionType(origin) THEN TypeHintVisitor_visit_union(hint)
              ELSE TypeHintVisitor_visit_generic_alias(hint, origin)
         ELSE TypeHintVisitor_visit_bare_hint(hint)

TypeHintVisitor_visit(hint) ==
    IF is_paramspecargs(hint) THEN TypeHintVisitor_visit_bare_hint(hint)
    ELSE LET origin == get_origin(hint) IN
         IF is_generic(origin) THEN Raise("ValueError", hint)
         ELSE IF origin # NoOrigin
         THEN IF InDeprecatedAliases(hint) THEN TypeHintVisitor_visit_bare_hint(hint)
              ELSE IF is_UnionType(origin) THEN TypeHintVisitor_visit_union(hint)
              ELSE TypeHintVisitor_visit_generic_alias(hint, origin)
         ELSE TypeHintVisitor_visit_bare_hint(hint)

(***************************************************************************)
(* TypeHintTransformer and MultiTransformer.  self is                      *)
(* [class, unpack_type_aliases, type_replacements]; type_replacements is   *)
(* the set of the dict's <<key, value>> items.  A method MultiTransformer  *)
(* overrides is reached through self.class.                                *)
(***************************************************************************)
TypeHintTransformer ==
    [class |-> "TypeHintTransformer", unpack_type_aliases |-> "skip",
     type_replacements |-> {}]

MultiTransformer(unpack_type_aliases_arg, type_replacements_arg) ==
    [class |-> "MultiTransformer", unpack_type_aliases |-> unpack_type_aliases_arg,
     type_replacements |-> type_replacements_arg]

\* dict.get(key, default).
Get(items, key, default) ==
    IF \E item \in items : item[1] = key
    THEN (CHOOSE item \in items : item[1] = key)[2]
    ELSE default

\* typing.Union[args]: flattened, deduplicated, a single member stays itself.
TypingUnion(args) ==
    LET Flat[i \in 0..Len(args)] ==
            IF i = 0 THEN <<>> ELSE Flat[i - 1] \o UnionMembers(args[i])
        members == Deduplicated(Flat[Len(args)], <<>>) IN
    IF Len(members) = 1 THEN members[1] ELSE Generic("Union", members)

\* hint.__origin__[visited_args] and hint.copy_with(visited_args).
Rebuilt(hint, visited_args) ==
    CASE hint.k = "annotated" -> Annotated(visited_args[1], hint.meta)
      [] hint.k = "generic" /\ hint.tag = "Union" -> TypingUnion(visited_args)
      [] OTHER -> [hint EXCEPT !.args = visited_args]

\* functools.reduce(operator.or_, visited_args).
ReduceOr(visited_args) ==
    LET Acc[i \in 1..Len(visited_args)] ==
            IF i = 1 THEN visited_args[1] ELSE Or(Acc[i - 1], visited_args[i]) IN
    Acc[Len(visited_args)]

TypeHintTransformer_visit_forward_hint(hint) == UnevaluatedTypeHint(hint)

TypeHintTransformer_visit_bare_hint(hint) ==
    IF is_forwardref(hint) \/ isinstance_str(hint)
    THEN TypeHintTransformer_visit_forward_hint(hint)
    ELSE Returned(hint, TRUE)

RECURSIVE TypeHintTransformer_visit(_, _, _)

\* tuple(self.visit(arg) for arg in args): [exc, value, visited_args]; the
\* first exception ends it.
RECURSIVE VisitedArgs(_, _, _, _)
VisitedArgs(self, args, ns, visited_args) ==
    IF args = <<>>
    THEN [exc |-> "none", value |-> None, visited_args |-> visited_args]
    ELSE LET first == TypeHintTransformer_visit(self, Head(args), ns) IN
         IF first.exc # "none"
         THEN [exc |-> first.exc, value |-> first.value, visited_args |-> <<>>]
         ELSE VisitedArgs(self, Tail(args), ns, Append(visited_args, first.value))

\* visit_generic_alias that rebuilds the alias whether or not an argument
\* changed.
TypeHintTransformer_visit_generic_alias_always_rebuilt(self, hint, origin, ns) ==
    IF is_literal(origin) THEN Returned(hint, TRUE)
    ELSE LET visited == VisitedArgs(self, hint.args, ns, <<>>) IN
         IF visited.exc # "none" THEN Raise(visited.exc, visited.value)
         ELSE Returned(Rebuilt(hint, visited.visited_args), FALSE)

TypeHintTransformer_visit_generic_alias(self, hint, origin, ns) ==
    IF is_literal(origin) THEN Returned(hint, TRUE)
    ELSE LET visited == VisitedArgs(self, hint.args, ns, <<>>) IN
         IF visited.exc # "none" THEN Raise(visited.exc, visited.value)
         ELSE IF visited.visited_args = hint.args THEN Returned(hint, TRUE)
         ELSE Returned(Rebuilt(hint, visited.visited_args), FALSE)

TypeHintTransformer_visit_union(self, hint, ns) ==
    LET visited == VisitedArgs(self, hint.args, ns, <<>>) IN
    IF visited.exc # "none" THEN Raise(visited.exc, visited.value)
    ELSE IF visited.visited_args = hint.args THEN Returned(hint, TRUE)
    ELSE Returned(ReduceOr(visited.visited_args), FALSE)

MultiTransformer_visit_generic_alias(self, hint, origin, ns) ==
    IF self.unpack_type_aliases # "skip" /\ is_typealiastype_origin(origin)
    THEN LET value == AliasValue(origin, ns) IN
         IF value.err
         THEN IF self.unpack_type_aliases = "eager" THEN Raise("NameError", hint)
              ELSE TypeHintTransformer_visit_generic_alias(self, hint, origin, ns)
         ELSE LET visited == VisitedArgs(self, hint.args, ns, <<>>) IN
              IF visited.exc # "none" THEN Raise(visited.exc, visited.value)
              ELSE LET subscripted == Subscript(value.value, visited.visited_args) IN
                   IF ~subscripted.ok THEN Raise("TypeError", hint)
                   ELSE LET expanded ==
                                TypeHintTransformer_visit(self, subscripted.value, ns) IN
                        IF expanded.exc # "none" THEN expanded
                        ELSE Returned(expanded.value, FALSE)
    ELSE TypeHintTransformer_visit_generic_alias(self, hint, origin, ns)

\* visit_bare_hint that looks the hint up before the forward-reference test.
MultiTransformer_visit_bare_hint_lookup_first(self, hint, ns) ==
    LET new_hint == Get(self.type_replacements, hint, hint) IN
    IF new_hint = hint THEN TypeHintTransformer_visit_bare_hint(hint)
    ELSE Returned(new_hint, FALSE)

MultiTransformer_visit_bare_hint(self, hint, ns) ==
    LET super == TypeHintTransformer_visit_bare_hint(hint) IN
    IF super.exc # "none" THEN super
    ELSE LET new_hint == Get(self.type_replacements, super.value, super.value) IN
         IF self.unpack_type_aliases # "skip" /\ is_typealiastype(new_hint)
         THEN LET value == AliasValue(new_hint.tag, ns) IN
              IF value.err
              THEN IF self.unpack_type_aliases = "eager"
                   THEN Raise("NameError", new_hint)
                   ELSE Returned(new_hint, new_hint = hint)
              ELSE LET expanded == TypeHintTransformer_visit(self, value.value, ns) IN
                   IF expanded.exc # "none" THEN expanded
                   ELSE Returned(expanded.value, FALSE)
         ELSE Returned(new_hint, new_hint = hint)

\* self.visit_bare_hint and self.visit_generic_alias, by the class of self.
visit_bare_hint(self, hint, ns) ==
    IF self.class = "MultiTransformer"
    THEN MultiTransformer_visit_bare_hint(self, hint, ns)
    ELSE TypeHintTransformer_visit_bare_hint(hint)

visit_generic_alias(self, hint, origin, ns) ==
    IF self.class = "MultiTransformer"
    THEN MultiTransformer_visit_generic_alias(self, hint, origin, ns)
    ELSE TypeHintTransformer_visit_generic_alias(self, hint, origin, ns)

TypeHintTransformer_visit(self, hint, ns) ==
    IF is_paramspecargs(hint) THEN visit_bare_hint(self, hint, ns)
    ELSE LET origin == get_origin(hint) IN
         IF is_generic(origin) THEN Raise("ValueError", hint)
         ELSE IF origin # NoOrigin
         THEN IF InDeprecatedAliases(hint) THEN visit_bare_hint(self, hint, ns)
              ELSE IF is_UnionType(origin) THEN TypeHintTransformer_visit_union(self, hint, ns)
              ELSE visit_generic_alias(self, hint, origin, ns)
         ELSE visit_bare_hint(self, hint, ns)

(***************************************************************************)
(* introspection._utils: get_default, _is_param_expr and                   *)
(* alias_substitutions.  A type parameter is [kind, name, has_default,     *)
(* default]; the origin of an alias is [typealias, has_parameters,         *)
(* parameters], has_parameters being FALSE when the origin has no          *)
(* __parameters__ attribute; the alias is [origin, args].                  *)
(***************************************************************************)
NoDefault == Node("NoDefault", "NoDefault", <<>>, <<>>)
\* The ... of Callable[..., Any], and a list of types such as [int, str].
Ellipsis == Node("ellipsis", "...", <<>>, <<>>)
ParamList(types) == Node("list", "", <<>>, types)

TypeParam(kind, name, has_default, default) ==
    [kind |-> kind, name |-> name, has_default |-> has_default, default |-> default]

is_paramspec_param(p) == p.kind = "ParamSpec"
is_typevartuple(p) == p.kind = "TypeVarTuple"
is_nodefault(arg) == arg = NoDefault

get_default(t) == IF t.has_default THEN t.default ELSE NoDefault

\* _is_param_expr, of an argument.
is_param_expr(arg) ==
    \/ arg.k = "ellipsis"
    \/ arg.k \in {"tuple", "list"}
    \/ arg.k = "paramspec"
    \/ get_origin(arg) = "Concatenate"

\* The result of alias_substitutions: the exception raised, or the value
\* returned: None (is_none), or the dict as the set of its <<name, arg>> items.
Substitutions(items) == [exc |-> "none", is_none |-> FALSE, items |-> items]
ReturnedNone == [exc |-> "none", is_none |-> TRUE, items |-> {}]
SubstitutionError(exc) == [exc |-> exc, is_none |-> FALSE, items |-> {}]

\* The lone-ParamSpec block of a type alias: the exception it raises, "none"
\* when it falls through (the arg it computes is not used afterwards).
ParamSpecBlock(origin, params, args) ==
    IF origin.typealias /\ Len(params) = 1 /\ is_paramspec_param(params[1])
    THEN IF Len(args) = 0
         THEN IF is_nodefault(get_default(params[1])) THEN "ValueError" ELSE "none"
         ELSE IF Len(args) = 1 /\ ~is_param_expr(args[1]) THEN "none"
         ELSE "UnboundLocalError"
    ELSE "none"

\* dict(zip(params, args, strict=True)).
ZipStrict(params, args) ==
    IF Len(params) # Len(args) THEN SubstitutionError("ValueError")
    ELSE Substitutions({<<params[i].name, args[i]>> : i \in DOMAIN params})

alias_substitutions(alias) ==
    IF ~alias.origin.has_parameters THEN SubstitutionError("ValueError")
    ELSE LET params == alias.origin.parameters
             args == alias.args
             block == ParamSpecBlock(alias.origin, params, args) IN
         IF block # "none" THEN SubstitutionError(block)
         ELSE IF \E i \in DOMAIN params : is_typevartuple(params[i])
         THEN ReturnedNone
         ELSE ZipStrict(params, args)

(***************************************************************************)
(* The hints, transformers and aliases of the universe.                    *)
(***************************************************************************)
str == Bare("str")

HintLeaves ==
    {int, TypeVarT, ForwardRef("A"), Str("B"), AliasRef("Plain"), AliasRef("MyInt"),
     GenericMarker(<<>>), GenericMarker(<<TypeVarT>>), DeprecatedAlias("list"),
     LiteralForm(<<Str("B")>>), ParamSpecArgs}

\* The operands X | Y is defined for.
CanOr(x) == x.k \notin {"str", "paramspecargs"}

\* The hints built in one step from the hints of S.
Composed(S) ==
    {Generic(origin, <<x>>) : origin \in {"list", "MyList", "MyIntT", "MyDict"}, x \in S}
    \cup {Generic("dict", <<x, y>>) : x \in S, y \in {int, ForwardRef("A")}}
    \cup {Generic("dict", <<y, x>>) : x \in S, y \in {int, ForwardRef("A")}}
    \cup {Or(x, str) : x \in {y \in S : CanOr(y)}}
    \cup {Or(str, x) : x \in {y \in S : CanOr(y)}}

RECURSIVE HintsOf(_)
HintsOf(n) == IF n = 0 THEN HintLeaves ELSE HintLeaves \cup Composed(HintsOf(n - 1))

Hints == HintsOf(MaxDepth)

TransformerPolicies == {"skip", "lenient", "eager"}

TypeReplacements ==
    {{},
     {<<TypeVarT, int>>, <<int, str>>},
     {<<ForwardRef("A"), int>>, <<Str("B"), str>>},
     {<<TypeVarT, AliasRef("Plain")>>}}

TypeVisitor ==
    [class |-> "TypeHintVisitor", unpack_type_aliases |-> "skip", type_replacements |-> {}]

T == TypeParam("TypeVar", "T", FALSE, NoDefault)
U == TypeParam("TypeVar", "U", TRUE, int)
Ts == TypeParam("TypeVarTuple", "Ts", FALSE, NoDefault)
P == TypeParam("ParamSpec", "P", FALSE, NoDefault)
PD == TypeParam("ParamSpec", "PD", TRUE, ParamList(<<int>>))

Origin(typealias, has_parameters, parameters) ==
    [typealias |-> typealias, has_parameters |-> has_parameters,
     parameters |-> parameters]

Origins ==
    {Origin(FALSE, FALSE, <<>>)}
    \cup {Origin(typealias, TRUE, parameters) :
            typealias \in BOOLEAN,
            parameters \in {<<T>>, <<T, U>>, <<T, Ts>>, <<Ts, T>>, <<P>>, <<PD>>}}

RECURSIVE AliasArgs(_)
AliasArgs(n) ==
    IF n = 0 THEN {<<>>}
    ELSE AliasArgs(n - 1)
         \cup {Append(args, arg) : args \in AliasArgs(n - 1),
                                   arg \in {int, str, ParamList(<<int>>)}}

\* The argument counts a generic class lets through when it is subscripted;
\* a type alias and a class without parameters take any.
Subscriptable(origin, args) ==
    \/ origin.typealias
    \/ ~origin.has_parameters
    \/ IF \E i \in DOMAIN origin.parameters : is_typevartuple(origin.parameters[i])
       THEN Len(args) >= Len(origin.parameters) - 1
       ELSE Len(args) = Len(origin.parameters)

GenericAliases ==
    {a \in [origin : Origins, args : AliasArgs(MaxLen)] : Subscriptable(a.origin, a.args)}

(***************************************************************************)
(* State.                                                                  *)
(***************************************************************************)
VARIABLES
    namespace,            \* the names alias values are evaluated in
    pc,                   \* "idle"; "loop", "done", "raised" (inspect_annotation);
                          \* "generator", "exhausted", "failed" (get_literal_values)
    arg_annotation,       \* the annotation inspect_annotation was called with
    annotation_source,    \* its annotation_source argument
    unpack_type_aliases,  \* its unpack_type_aliases argument
    annotation,           \* the local annotation, unwrapped pass by pass
    allowed,              \* the local allowed_qualifiers
    qualifiers,           \* the local qualifiers
    metadata,             \* the local metadata deque
    iterations,           \* passes of the loop made so far
    result,               \* the InspectedAnnotation returned
    raised,               \* the exception that ended the call
    literal_args,         \* __args__ of the Literal form given to get_literal_values
    type_check,           \* its type_check argument
    values,               \* the values its generator has yielded
    hint,                 \* the hint given to visit()
    transformer,          \* the visitor or transformer visit() was called on
    visited,              \* the outcome of visit()
    alias,                \* the alias given to alias_substitutions
    substitutions         \* the outcome of alias_substitutions

vars == <<namespace, pc, arg_annotation, annotation_source, unpack_type_aliases,
          annotation, allowed, qualifiers, metadata, iterations, result, raised,
          literal_args, type_check, values, hint, transformer, visited, alias,
          substitutions>>

literal_vars == <<literal_args, type_check, values>>

call_vars == <<arg_annotation, annotation_source, unpack_type_aliases, allowed>>

parsing_vars == <<hint, transformer, visited, alias, substitutions>>

inspect_vars == <<call_vars, annotation, qualifiers, metadata, iterations, result, raised>>

Init ==
    /\ namespace = [s \in Symbols |-> Unbound]
    /\ pc = "idle"
    /\ arg_annotation = int
    /\ annotation_source = "BARE"
    /\ unpack_type_aliases = "eager"
    /\ annotation = int
    /\ allowed = {}
    /\ qualifiers = {}
    /\ metadata = <<>>
    /\ iterations = 0
    /\ result = NoResult
    /\ raised = NoException
    /\ literal_args = <<>>
    /\ type_check = FALSE
    /\ values = <<>>
    /\ hint = None
    /\ transformer = TypeVisitor
    /\ visited = Returned(None, FALSE)
    /\ alias = [origin |-> Origin(FALSE, FALSE, <<>>), args |-> <<>>]
    /\ substitutions = ReturnedNone

\* Undefined = int
Define(s) ==
    /\ pc \in {"idle", "generator"}
    /\ namespace[s] = Unbound
    /\ namespace' = [namespace EXCEPT ![s] = int]
    /\ UNCHANGED <<parsing_vars, pc, call_vars, annotation, qualifiers, metadata, iterations,
                   result, raised, literal_vars>>

\* inspect_annotation(a, annotation_source=s, unpack_type_aliases=p), up to the loop.
Call(a, s, p) ==
    /\ pc = "idle"
    /\ pc' = "loop"
    /\ arg_annotation' = a
    /\ annotation_source' = s
    /\ unpack_type_aliases' = p
    /\ annotation' = a
    /\ allowed' = allowed_qualifiers(s)
    /\ qualifiers' = {}
    /\ metadata' = <<>>
    /\ iterations' = 0
    /\ result' = NoResult
    /\ raised' = NoException
    /\ UNCHANGED <<parsing_vars, namespace, literal_vars>>

\* What _unpack_annotated gives in this pass.
Peeled == unpack_annotated(annotation, unpack_type_aliases, namespace)

\* A pass in which _unpack_annotated raises NameError.
LoopNameError ==
    /\ pc = "loop"
    /\ Peeled.err
    /\ pc' = "raised"
    /\ raised' = NameError
    /\ iterations' = iterations + 1
    /\ UNCHANGED <<parsing_vars, namespace, call_vars, annotation, qualifiers, metadata, result, literal_vars>>

\* A pass that peels metadata, then continues.
LoopMetadata ==
    /\ pc = "loop"
    /\ ~Peeled.err
    /\ Peeled.meta # <<>>
    /\ annotation' = Peeled.typ
    /\ metadata' = ExtendLeft(metadata, Reversed(Peeled.meta))
    /\ iterations' = iterations + 1
    /\ UNCHANGED <<parsing_vars, namespace, pc, call_vars, qualifiers, result, raised, literal_vars>>

\* A pass that finds an allowed qualifier, records it and unwraps it.
LoopQualifier ==
    /\ pc = "loop"
    /\ ~Peeled.err
    /\ Peeled.meta = <<>>
    /\ get_origin(Peeled.typ) \in QualifierForms
    /\ QualifierAdded(get_origin(Peeled.typ)) \in allowed
    /\ qualifiers' = qualifiers \cup {QualifierAdded(get_origin(Peeled.typ))}
    /\ annotation' = Peeled.typ.args[1]
    /\ iterations' = iterations + 1
    /\ UNCHANGED <<parsing_vars, namespace, pc, call_vars, metadata, result, raised, literal_vars>>

\* A pass that finds a qualifier that is not allowed, and raises.
LoopForbidden ==
    /\ pc = "loop"
    /\ ~Peeled.err
    /\ Peeled.meta = <<>>
    /\ get_origin(Peeled.typ) \in QualifierForms
    /\ QualifierAdded(get_origin(Peeled.typ)) \notin allowed
    /\ pc' = "raised"
    /\ raised' = ForbiddenQualifier(QualifierRaised(get_origin(Peeled.typ)))
    /\ annotation' = Peeled.typ
    /\ iterations' = iterations + 1
    /\ UNCHANGED <<parsing_vars, namespace, call_vars, qualifiers, metadata, result, literal_vars>>

\* A pass that finds an origin that is no qualifier: break, then the code
\* after the loop.
LoopBreak ==
    /\ pc = "loop"
    /\ ~Peeled.err
    /\ Peeled.meta = <<>>
    /\ get_origin(Peeled.typ) # NoOrigin
    /\ get_origin(Peeled.typ) \notin QualifierForms
    /\ LET after == AfterLoop(Peeled.typ, allowed, qualifiers, metadata) IN
       /\ pc' = IF after.raised = NoException THEN "done" ELSE "raised"
       /\ raised' = after.raised
       /\ result' = after.result
       /\ qualifiers' = after.result.qualifiers
    /\ annotation' = Peeled.typ
    /\ iterations' = iterations + 1
    /\ UNCHANGED <<parsing_vars, namespace, call_vars, metadata, literal_vars>>

\* A pass that finds no origin: no branch is taken and the loop goes round.
LoopAgain ==
    /\ pc = "loop"
    /\ ~Peeled.err
    /\ Peeled.meta = <<>>
    /\ get_origin(Peeled.typ) = NoOrigin
    /\ iterations < MaxIterations
    /\ annotation' = Peeled.typ
    /\ iterations' = iterations + 1
    /\ UNCHANGED <<parsing_vars, namespace, pc, call_vars, qualifiers, metadata, result, raised,
                   literal_vars>>

\* The caller takes the result, or the exception, of the call.
\* get_literal_values(Literal[args], type_check=tc, unpack_type_aliases=p):
\* the call makes the generator and runs none of its body.
GetLiteralValues(args, tc, p) ==
    /\ pc = "idle"
    /\ pc' = "generator"
    /\ literal_args' = args
    /\ type_check' = tc
    /\ unpack_type_aliases' = p
    /\ values' = <<>>
    /\ UNCHANGED <<parsing_vars, namespace, arg_annotation, annotation_source, allowed, annotation,
                   qualifiers, metadata, iterations, result, raised>>

\* What the generator does when it is run to its end.
Generated == get_literal_values(literal_args, type_check, unpack_type_aliases, namespace)

\* list(generator), the generator being exhausted.
Exhaust ==
    /\ pc = "generator"
    /\ Generated.exc = "none"
    /\ pc' = "exhausted"
    /\ values' = Generated.out
    /\ UNCHANGED <<parsing_vars, namespace, call_vars, annotation, qualifiers, metadata, iterations,
                   result, raised, literal_args, type_check>>

\* list(generator), the generator raising.
Fail ==
    /\ pc = "generator"
    /\ Generated.exc # "none"
    /\ pc' = "failed"
    /\ values' = Generated.out
    /\ raised' = [exc |-> Generated.exc, qualifier |-> "none"]
    /\ UNCHANGED <<parsing_vars, namespace, call_vars, annotation, qualifiers, metadata, iterations,
                   result, literal_args, type_check>>

Return ==
    /\ pc \in {"done", "raised", "exhausted", "failed", "visited", "bound"}
    /\ pc' = "idle"
    /\ arg_annotation' = int
    /\ annotation_source' = "BARE"
    /\ unpack_type_aliases' = "eager"
    /\ annotation' = int
    /\ allowed' = {}
    /\ qualifiers' = {}
    /\ metadata' = <<>>
    /\ iterations' = 0
    /\ result' = NoResult
    /\ raised' = NoException
    /\ literal_args' = <<>>
    /\ type_check' = FALSE
    /\ values' = <<>>
    /\ hint' = None
    /\ transformer' = TypeVisitor
    /\ visited' = Returned(None, FALSE)
    /\ alias' = [origin |-> Origin(FALSE, FALSE, <<>>), args |-> <<>>]
    /\ substitutions' = ReturnedNone
    /\ UNCHANGED namespace

\* TypeHintVisitor().visit(h)
Visit(h) ==
    /\ pc = "idle"
    /\ pc' = "visited"
    /\ hint' = h
    /\ transformer' = TypeVisitor
    /\ visited' = TypeHintVisitor_visit(h)
    /\ UNCHANGED <<namespace, inspect_vars, literal_vars, alias, substitutions>>

\* TypeHintTransformer().visit(h)
Transform(h) ==
    /\ pc = "idle"
    /\ pc' = "visited"
    /\ hint' = h
    /\ transformer' = TypeHintTransformer
    /\ visited' = TypeHintTransformer_visit(TypeHintTransformer, h, namespace)
    /\ UNCHANGED <<namespace, inspect_vars, literal_vars, alias, substitutions>>

\* MultiTransformer(unpack_type_aliases=p, type_replacements=r).visit(h)
MultiTransform(h, p, r) ==
    /\ pc = "idle"
    /\ pc' = "visited"
    /\ hint' = h
    /\ transformer' = MultiTransformer(p, r)
    /\ visited' = TypeHintTransformer_visit(MultiTransformer(p, r), h, namespace)
    /\ UNCHANGED <<namespace, inspect_vars, literal_vars, alias, substitutions>>

\* alias_substitutions(a)
AliasSubstitutions(a) ==
    /\ pc = "idle"
    /\ pc' = "bound"
    /\ alias' = a
    /\ substitutions' = alias_substitutions(a)
    /\ UNCHANGED <<namespace, inspect_vars, literal_vars, hint, transformer, visited>>

Next ==
    \/ \E s \in Symbols : Define(s)
    \/ /\ pc = "idle"
       /\ \E a \in Annotations, s \in AnnotationSource, p \in Policies : Call(a, s, p)
    \/ /\ pc = "idle"
       /\ \E args \in Literals, tc \in BOOLEAN, p \in Policies :
            GetLiteralValues(args, tc, p)
    \/ /\ pc = "idle"
       /\ \E h \in Hints : Visit(h)
    \/ /\ pc = "idle"
       /\ \E h \in Hints : Transform(h)
    \/ /\ pc = "idle"
       /\ \E h \in Hints, p \in TransformerPolicies, r \in TypeReplacements :
            MultiTransform(h, p, r)
    \/ /\ pc = "idle"
       /\ \E a \in GenericAliases : AliasSubstitutions(a)
    \/ Exhaust
    \/ Fail
    \/ LoopNameError
    \/ LoopMetadata
    \/ LoopQualifier
    \/ LoopForbidden
    \/ LoopBreak
    \/ LoopAgain
    \/ Return

Spec == Init /\ [][Next]_vars

(***************************************************************************)
(* Claims about inspect_annotation.                                        *)
(***************************************************************************)
\* The qualifier each qualifier form stands for.
FormQualifier(form) ==
    CASE form = "ClassVar"    -> "class_var"
      [] form = "Final"       -> "final"
      [] form = "Required"    -> "required"
      [] form = "NotRequired" -> "not_required"
      [] form = "ReadOnly"    -> "read_only"

\* The allow-list of each annotation source, as the specification gives it.
AllowList(source) ==
    CASE source = "ASSIGNMENT_OR_VARIABLE" -> {"final"}
      [] source = "CLASS" -> {"final", "class_var"}
      [] source = "TYPED_DICT" -> {"required", "not_required", "read_only"}
      [] source = "NAMED_TUPLE" -> {}
      [] source = "FUNCTION" -> {}
      [] source = "BARE" -> {}
      [] source = "ANY" -> Qualifier

\* s is the end of t.
IsSuffix(s, t) ==
    /\ Len(s) <= Len(t)
    /\ SubSeq(t, Len(t) - Len(s) + 1, Len(t)) = s

\* s is the start of t.
IsPrefix(s, t) ==
    /\ Len(s) <= Len(t)
    /\ SubSeq(t, 1, Len(s)) = s

\* The loop is at an expression with nothing to unwrap: no metadata to peel
\* (directly or through an alias) and no qualifier origin.
NothingToUnwrap ==
    /\ pc = "loop"
    /\ ~Peeled.err
    /\ Peeled.meta = <<>>
    /\ get_origin(Peeled.typ) \notin QualifierForms

\* C1: the unwrapping loop exits as soon as the current expression has no
\* metadata wrapper to peel and has no origin or an origin that is no
\* qualifier, so that inspect_annotation terminates.
C1_LoopExits == [][NothingToUnwrap => pc' # "loop"]_vars

\* C2: the accumulated qualifiers are always within the source's allow-list;
\* a pass that reaches a qualifier wrapper records it when it is allowed and
\* otherwise ends the call with ForbiddenQualifier and no result.
C2_AllowListEnforced ==
    /\ [](qualifiers \subseteq AllowList(annotation_source))
    /\ [](pc = "done" => result.qualifiers \subseteq AllowList(annotation_source))
    /\ [][(pc = "loop" /\ annotation.k = "qualified") =>
            IF FormQualifier(annotation.tag) \in AllowList(annotation_source)
            THEN /\ pc' = "loop"
                 /\ qualifiers' = qualifiers \cup {FormQualifier(annotation.tag)}
            ELSE /\ pc' = "raised"
                 /\ raised'.exc = "ForbiddenQualifier"
                 /\ result' = NoResult]_vars

\* C2 witness: a call that recorded an allowed qualifier and peeled metadata
\* ends with ForbiddenQualifier at a later, disallowed qualifier wrapper.
C2_Witness ==
    /\ pc = "raised"
    /\ raised.exc = "ForbiddenQualifier"
    /\ qualifiers # {}
    /\ metadata # <<>>
    /\ annotation.k = "qualified"
    /\ FormQualifier(annotation.tag) \notin AllowList(annotation_source)

\* C3: the qualifier carried by ForbiddenQualifier is the kind of the
\* qualifier wrapper that was met and is not allowed.
C3_ReportsEncounteredQualifier ==
    (pc = "raised" /\ raised.exc = "ForbiddenQualifier" /\ annotation.k = "qualified")
        => raised.qualifier = FormQualifier(annotation.tag)

\* C4, as stated: metadata is in outer-to-inner order, so the values of an
\* inner wrapper are put after those accumulated from the outer wrappers, and
\* the nested example gives [1, 2, 3].
C4_OuterToInner ==
    /\ [][(pc = "loop" /\ annotation.k = "annotated" /\ pc' = "loop") =>
            IsPrefix(metadata \o annotation.meta, metadata')]_vars
    /\ []((/\ pc = "done"
           /\ arg_annotation = NestedMetadata(Generic("list", <<int>>))
           /\ annotation_source = "ANY")
            => result.metadata = <<1, 2, 3>> /\ result.qualifiers = {"final"})

\* C4, amended: metadata is in inner-to-outer order: the values of an inner
\* wrapper are put before those accumulated from the outer wrappers, the
\* result carries the accumulated sequence, and the nested example
\* Annotated[Final[Annotated[list[int], 3, 2]], 1] gives [3, 2, 1].
C4_InnerToOuter ==
    /\ [][(pc = "loop" /\ annotation.k = "annotated" /\ pc' = "loop") =>
            IsSuffix(annotation.meta \o metadata, metadata')]_vars
    /\ [][(pc = "loop" /\ metadata' # metadata) =>
            (Len(metadata') > Len(metadata) /\ IsSuffix(metadata, metadata'))]_vars
    /\ [](pc = "done" => result.metadata = metadata)
    /\ []((/\ pc = "done"
           /\ arg_annotation = NestedMetadata(Generic("list", <<int>>))
           /\ annotation_source = "ANY")
            => result.metadata = <<3, 2, 1>> /\ result.qualifiers = {"final"})

\* C4 witness: the nested example has returned, with source ANY.
C4_Witness ==
    /\ pc = "done"
    /\ arg_annotation = NestedMetadata(Generic("list", <<int>>))
    /\ annotation_source = "ANY"
    /\ result = InspectedAnnotation(Generic("list", <<int>>), {"final"}, <<3, 2, 1>>)

\* C5: Final[Annotated[ClassVar[Annotated[Alias, 2]], 3]] with source ANY and
\* the eager policy returns type int, qualifiers {class_var, final} and
\* metadata [1, 2, 3]: once the loop has unwrapped it down to int, the call
\* returns that result.
C5_TestUnpackAnnotation ==
    [][(/\ pc = "loop"
        /\ arg_annotation = TestAnnotation
        /\ annotation_source = "ANY"
        /\ unpack_type_aliases = "eager"
        /\ annotation = int)
        => (/\ pc' = "done"
            /\ result' = InspectedAnnotation(int, {"class_var", "final"}, <<1, 2, 3>>))]_vars

\* C6: a bare Final, alone or left after unwrapping, gives type Any and the
\* qualifier final when final is allowed, and ForbiddenQualifier(final)
\* when it is not.
C6_BareFinal ==
    [][(pc = "loop" /\ annotation = Final) =>
        IF "final" \in AllowList(annotation_source)
        THEN /\ pc' = "done"
             /\ result'.type = AnyType
             /\ result'.qualifiers = qualifiers \cup {"final"}
        ELSE /\ pc' = "raised"
             /\ raised' = ForbiddenQualifier("final")]_vars

\* C7: under lenient an alias whose value cannot be resolved is returned as
\* the type, with no qualifiers and no metadata, and nothing is raised; once
\* the name is bound, the same call returns the expanded type with the
\* value's metadata; under keep the alias is returned as the type.
C7_LenientAlias ==
    /\ [][(/\ pc = "loop"
           /\ arg_annotation = AliasRef("MyInt")
           /\ annotation = AliasRef("MyInt")
           /\ \/ unpack_type_aliases = "keep"
              \/ unpack_type_aliases = "lenient" /\ namespace["Undefined"] = Unbound)
            => (/\ pc' = "done"
                /\ result' = InspectedAnnotation(AliasRef("MyInt"), {}, <<>>))]_vars
    /\ [][(/\ pc = "loop"
           /\ arg_annotation = AliasRef("MyInt")
           /\ unpack_type_aliases = "lenient"
           /\ namespace["Undefined"] # Unbound
           /\ annotation = int)
            => (/\ pc' = "done"
                /\ result' = InspectedAnnotation(int, {}, <<4>>))]_vars

(***************************************************************************)
(* Claims about get_literal_values.                                        *)
(***************************************************************************)
\* The members of seq at the indices kept, in their order.
Pick(seq, kept) ==
    [r \in 1..Cardinality(kept) |->
        seq[CHOOSE i \in kept : Cardinality({j \in kept : j <= i}) = r]]

\* None and the class NoneType, the two forms of the one none identity.
IsNone(m) == m = NoneValue \/ m = NoneTypeClass

\* The members with each none form written as None.
NoneAsValue(seq) == [i \in DOMAIN seq |-> IF IsNone(seq[i]) THEN NoneValue ELSE seq[i]]

\* The members as they are, a single None standing at the first none form.
OneNone(seq) ==
    Pick(NoneAsValue(seq),
         {i \in DOMAIN seq : IsNone(seq[i]) => \A j \in 1..(i - 1) : ~IsNone(seq[j])})

\* C8: under keep with type checking off, the generator yields the
\* top-level members in order and as they are (aliases unexpanded), with a
\* single None at the first none-value or none sentinel type, and raises
\* nothing.
C8_KeepYieldsMembers ==
    (pc \in {"exhausted", "failed"} /\ unpack_type_aliases = "keep" /\ ~type_check)
        => (pc = "exhausted" /\ values = OneNone(literal_args))

\* C8 witness: Literal[NoneType, None] under keep has yielded exactly [None].
C8_Witness ==
    /\ pc = "exhausted"
    /\ unpack_type_aliases = "keep"
    /\ ~type_check
    /\ literal_args = <<NoneTypeClass, NoneValue>>
    /\ values = <<NoneValue>>

\* C9: under the default eager policy, a literal set holding both NoneType
\* and None, in either order, yields exactly one None.
C9_EagerNoneOnce ==
    (/\ pc = "exhausted"
     /\ unpack_type_aliases = "eager"
     /\ \E i \in DOMAIN literal_args : literal_args[i] = NoneValue
     /\ \E i \in DOMAIN literal_args : literal_args[i] = NoneTypeClass)
        => Cardinality({i \in DOMAIN values : values[i] = NoneValue}) = 1

\* Every alias among the members, and in the alias values, resolves.
RECURSIVE AllResolve(_, _)
AllResolve(args, ns) ==
    \A i \in DOMAIN args :
        is_typealiastype_member(args[i]) =>
            /\ ~LiteralAliasValue(args[i].name, ns).err
            /\ AllResolve(LiteralAliasValue(args[i].name, ns).args, ns)

\* The members with every alias replaced, in place and recursively, by the
\* members of its value.
RECURSIVE Flattened(_, _)
Flattened(args, ns) ==
    IF args = <<>> THEN <<>>
    ELSE (IF is_typealiastype_member(Head(args))
          THEN Flattened(LiteralAliasValue(Head(args).name, ns).args, ns)
          ELSE <<Head(args)>>) \o Flattened(Tail(args), ns)

\* The first occurrence of each (value, kind of value) pair, in order.
FirstOccurrences(seq) ==
    Pick(seq, {i \in DOMAIN seq : \A j \in 1..(i - 1) : seq[j] # seq[i]})

\* C10: under lenient and eager, when every alias resolves, the output is
\* the flattened member sequence (the none sentinel type standing for the
\* none value) without duplicates of (value, kind of value), in the order
\* of the first occurrences.
C10_FlattenedDeduplicated ==
    (/\ pc = "exhausted"
     /\ unpack_type_aliases \in {"lenient", "eager"}
     /\ AllResolve(literal_args, namespace))
        => values = FirstOccurrences(NoneAsValue(Flattened(literal_args, namespace)))

\* The aliases, among the members or reached through alias values, whose
\* value does not resolve.
RECURSIVE UnresolvedAliases(_, _)
UnresolvedAliases(args, ns) ==
    UNION {IF ~is_typealiastype_member(args[i]) THEN {}
           ELSE IF LiteralAliasValue(args[i].name, ns).err THEN {args[i]}
           ELSE UnresolvedAliases(LiteralAliasValue(args[i].name, ns).args, ns)
           : i \in DOMAIN args}

\* C11: when an alias member, at the top level or reached through alias
\* expansion, does not resolve, the eager generator fails (with the
\* NameError, unless type checking fails first) and the lenient generator
\* raises nothing and yields the alias itself among its values.
C11_UnresolvedAlias ==
    (/\ pc \in {"exhausted", "failed"}
     /\ UnresolvedAliases(literal_args, namespace) # {})
        => /\ unpack_type_aliases = "eager" =>
                /\ pc = "failed"
                /\ ~type_check => raised.exc = "NameError"
           /\ unpack_type_aliases = "lenient" =>
                /\ pc = "exhausted"
                /\ \A a \in UnresolvedAliases(literal_args, namespace) :
                        \E i \in DOMAIN values : values[i] = a

\* The members that are no alias, at the top level or, under lenient and
\* eager, reached through the aliases that resolve.
RECURSIVE PlainMembers(_, _, _)
PlainMembers(args, policy, ns) ==
    UNION {IF ~is_typealiastype_member(args[i]) THEN {args[i]}
           ELSE IF policy = "keep" \/ LiteralAliasValue(args[i].name, ns).err THEN {}
           ELSE PlainMembers(LiteralAliasValue(args[i].name, ns).args, policy, ns)
           : i \in DOMAIN args}

\* An integer, byte string, text string, boolean, enum member or none.
LegalMember(m) ==
    m.kind \in {"int", "bytes", "str", "bool", "Enum"} \/ IsNone(m)

\* C12: with type_check on, under each policy, the generator fails with
\* TypeError exactly when some member that is no alias, at the top level or
\* reached through alias expansion, is not a legal literal value; an alias
\* member kept or left unexpanded never causes the error.
C12_TypeCheckNonAliasMembers ==
    (/\ pc \in {"exhausted", "failed"}
     /\ type_check
     /\ raised.exc # "NameError")
        => (raised.exc = "TypeError" <=>
                \E m \in PlainMembers(literal_args, unpack_type_aliases, namespace) :
                    ~LegalMember(m))

\* The forward references and Generic-marker nodes of a hint, in depth-first,
\* left-to-right order.  The members of a Literal form are values, not
\* hints, and what is under a marker node is not looked at.
RECURSIVE Events(_)
Events(h) ==
    IF h.k \in {"forwardref", "str", "marker"} THEN <<h>>
    ELSE IF h.k = "generic" /\ h.tag = "Literal" THEN <<>>
    ELSE LET Upto[i \in 0..Len(h.args)] ==
                 IF i = 0 THEN <<>> ELSE Upto[i - 1] \o Events(h.args[i]) IN
         Upto[Len(h.args)]

\* C13: TypeHintVisitor.visit, on a hint whose first forward reference or
\* marker node in depth-first, left-to-right order is a forward reference,
\* raises UnevaluatedTypeHint with exactly that reference as forward_arg.
C13_FirstForwardReference ==
    (/\ pc = "visited"
     /\ transformer.class = "TypeHintVisitor"
     /\ Events(hint) # <<>>
     /\ Head(Events(hint)).k # "marker")
        => visited = UnevaluatedTypeHint(Head(Events(hint)))

\* A visit that met the first of two different forward references, below
\* the top of a nested hint.
C13_Witness ==
    /\ pc = "visited"
    /\ transformer.class = "TypeHintVisitor"
    /\ visited.exc = "UnevaluatedTypeHint"
    /\ Len(Events(hint)) >= 2
    /\ Events(hint)[2].k \in {"forwardref", "str"}
    /\ Events(hint)[2] # Events(hint)[1]
    /\ Len(hint.args) = 2
    /\ hint.args[1].args # <<>>
    /\ visited.value \notin {hint.args[i] : i \in DOMAIN hint.args}

\* C14: the base TypeHintTransformer, on a hint without forward reference
\* and without Generic marker, returns the very object it was given.
C14_IdentityTransformer ==
    (/\ pc = "visited"
     /\ transformer = TypeHintTransformer
     /\ Events(hint) = <<>>)
        => visited = Returned(hint, TRUE)

\* A nested parameterized generic, with an argument that has arguments
\* itself, came back from the base transformer.
C14_Witness ==
    /\ pc = "visited"
    /\ transformer = TypeHintTransformer
    /\ Events(hint) = <<>>
    /\ hint.k \in {"generic", "union"}
    /\ \E i \in DOMAIN hint.args : hint.args[i].args # <<>>
    /\ visited.exc = "none"

\* C16: in TypeHintVisitor.visit and in TypeHintTransformer.visit, a hint
\* whose first forward reference or marker node in traversal order is a
\* Generic marker raises ValueError for that node, whatever comes after it.
C16_GenericMarkerInvalid ==
    (/\ pc = "visited"
     /\ transformer.class \in {"TypeHintVisitor", "TypeHintTransformer"}
     /\ Events(hint) # <<>>
     /\ Head(Events(hint)).k = "marker")
        => visited = Raise("ValueError", Head(Events(hint)))

\* A transformer met a Generic marker below the top of a hint that has a
\* forward reference further on.
C16_Witness ==
    /\ pc = "visited"
    /\ transformer.class = "TypeHintTransformer"
    /\ hint.k # "marker"
    /\ visited.exc = "ValueError"
    /\ Len(Events(hint)) >= 2
    /\ Events(hint)[2].k \in {"forwardref", "str"}

\* The index of the variadic parameter, 0 when there is none.
VariadicIndex(params) ==
    IF \E i \in DOMAIN params : is_typevartuple(params[i])
    THEN CHOOSE i \in DOMAIN params : is_typevartuple(params[i])
    ELSE 0

\* The binding the contract describes: [err, items].  Without a variadic
\* parameter each parameter takes the argument of its position, or its
\* default when the arguments are exhausted; a variadic parameter takes what
\* the parameters before and after it leave.
Bound(params, args) ==
    LET n == Len(params)
        m == Len(args)
        v == VariadicIndex(params) IN
    IF v = 0
    THEN IF \E i \in DOMAIN params : i > m /\ ~params[i].has_default
         THEN [err |-> TRUE, items |-> {}]
         ELSE [err |-> FALSE,
               items |-> {<<params[i].name,
                            IF i <= m THEN args[i] ELSE params[i].default>> :
                          i \in DOMAIN params}]
    ELSE IF m < n - 1 THEN [err |-> TRUE, items |-> {}]
    ELSE [err |-> FALSE,
          items |-> {<<params[i].name,
                       IF i < v THEN args[i]
                       ELSE IF i > v THEN args[m - (n - i)]
                       ELSE Node("tuple", "", <<>>, SubSeq(args, v, m - (n - v)))>> :
                     i \in DOMAIN params}]

\* C15: for an origin whose parameters are type variables and at most one
\* type-variable tuple, alias_substitutions returns the mapping of every
\* parameter to its argument, to its default when the arguments are
\* exhausted, or (the variadic one) to the sequence of the surplus
\* arguments, and fails when a parameter has neither argument nor default.
C15_BindsParameters ==
    (/\ pc = "bound"
     /\ alias.origin.has_parameters
     /\ \A i \in DOMAIN alias.origin.parameters :
            ~is_paramspec_param(alias.origin.parameters[i])
     /\ \/ VariadicIndex(alias.origin.parameters) # 0
        \/ Len(alias.args) <= Len(alias.origin.parameters))
        => LET bound == Bound(alias.origin.parameters, alias.args) IN
           IF bound.err THEN substitutions.exc # "none"
           ELSE substitutions = Substitutions(bound.items)

\* The hint with every leaf that is a key of the mapping replaced by the
\* mapped value, looked up once, and every parameterized generic or union
\* around a replaced leaf rebuilt.
RECURSIVE Replaced(_, _)
Replaced(h, items) ==
    IF h.args = <<>> THEN Get(items, h, h)
    ELSE IF h.k = "generic" /\ h.tag = "Literal" THEN h
    ELSE LET args == [i \in DOMAIN h.args |-> Replaced(h.args[i], items)] IN
         IF args = h.args THEN h
         ELSE IF h.k = "union" THEN ReduceOr(args)
         ELSE Rebuilt(h, args)

\* C17 as stated: a MultiTransformer with policy skip returns the hint with
\* every leaf that is a key of the mapping replaced, forward-reference
\* leaves included.
C17_ReplacesForwardReferences ==
    (/\ pc = "visited"
     /\ transformer.class = "MultiTransformer"
     /\ transformer.unpack_type_aliases = "skip"
     /\ \A i \in DOMAIN Events(hint) :
            /\ Events(hint)[i].k # "marker"
            /\ \E item \in transformer.type_replacements : item[1] = Events(hint)[i])
        => /\ visited.exc = "none"
           /\ visited.value = Replaced(hint, transformer.type_replacements)

\* C17: a MultiTransformer with policy skip, on a hint without forward
\* reference and Generic marker, returns the hint with every leaf that is a
\* key of the mapping replaced by its value, looked up once, and what is
\* around it rebuilt; a forward-reference leaf met first raises
\* UnevaluatedTypeHint whether or not it is a key of the mapping.
C17_ReplacesLeaves ==
    (/\ pc = "visited"
     /\ transformer.class = "MultiTransformer"
     /\ transformer.unpack_type_aliases = "skip")
        => IF Events(hint) = <<>>
           THEN /\ visited.exc = "none"
                /\ visited.value = Replaced(hint, transformer.type_replacements)
           ELSE IF Head(Events(hint)).k = "marker"
           THEN visited = Raise("ValueError", Head(Events(hint)))
           ELSE visited = UnevaluatedTypeHint(Head(Events(hint)))

\* A generic two levels deep came back rebuilt around a replaced leaf whose
\* mapped value is itself a key of the mapping.
C17_Witness ==
    /\ pc = "visited"
    /\ transformer.class = "MultiTransformer"
    /\ transformer.unpack_type_aliases = "skip"
    /\ <<int, str>> \in transformer.type_replacements
    /\ visited.exc = "none"
    /\ ~visited.same
    /\ hint.k = "generic"
    /\ Len(hint.args) = 2
    /\ hint.args[1] = Generic("list", <<TypeVarT>>)
    /\ visited.value.args[1] = Generic("list", <<int>>)

\* The names of the aliases that occur in a hint, as a leaf or as an origin.
RECURSIVE AliasesIn(_)
AliasesIn(h) ==
    (IF h.k = "alias" \/ (h.k = "generic" /\ h.tag \in AliasNames) THEN {h.tag} ELSE {})
    \cup UNION {AliasesIn(h.args[i]) : i \in DOMAIN h.args}

Unresolved(names, ns) == {name \in names : AliasValue(name, ns).err}

\* C18: a MultiTransformer without replacements, on a hint without forward
\* reference and Generic marker: under skip the hint comes back as it is;
\* under eager an unresolved alias raises NameError, and otherwise the
\* result holds no alias; under lenient nothing is raised and the only
\* aliases left in the result are unresolved ones.
C18_AliasExpansionPolicy ==
    (/\ pc = "visited"
     /\ transformer.class = "MultiTransformer"
     /\ transformer.type_replacements = {}
     /\ Events(hint) = <<>>)
        => /\ transformer.unpack_type_aliases = "skip" => visited = Returned(hint, TRUE)
           /\ transformer.unpack_type_aliases = "eager" =>
                IF Unresolved(AliasesIn(hint), namespace) # {}
                THEN visited.exc = "NameError"
                ELSE visited.exc = "none" /\ AliasesIn(visited.value) = {}
           /\ transformer.unpack_type_aliases = "lenient" =>
                /\ visited.exc = "none"
                /\ Unresolved(AliasesIn(visited.value), namespace)
                        = AliasesIn(visited.value)

=============================================================================
